---- MODULE Spec2Model ----
(***************************************************************************)
(* Model of the data-reconciliation logic of the OOI carbonate notebooks:  *)
(*   - trim_overlaps (scripts/Downloading_Data.ipynb): clip the recorded   *)
(*     deployment end times and select one file's samples by time;         *)
(*   - the merge cells (the second notebook): variable alignment with      *)
(*     broadcast_like and the two combine_first calls.                     *)
(*   - the stream filter, the load loop and the combine cell               *)
(*     (scripts/Downloading_Data.ipynb).                                   *)
(*   - the parameter filter (scripts/Downloading_Data.ipynb) and the       *)
(*     catalog cleaning of the download cell (the second notebook).        *)
(* Timestamps are positive integers.  pandas' NaT and numpy's NaN are the  *)
(* distinguished values NaT and NaN.                                       *)
(***************************************************************************)
EXTENDS Integers, Sequences, FiniteSets, TLC

VARIABLES
    deployments,   \* trim: the caller's deployments table (rows in the caller's order)
    dep_index,     \* trim: the index labels of the caller's deployments table
    ds,            \* trim: the dataset variable of preprocess_datalogger
    ds_arg,        \* trim: the dataset object passed to the latest trim_overlaps call
    ds_file,       \* trim: the dataset object open_mfdataset handed to preprocess
    err,           \* trim: exception raised by the latest call, "none" if it returned
    calls,         \* trim: number of trim_overlaps calls made on ds
    files,         \* load: the per-file datasets of one method, in catalog order
    parts,         \* load: per file, whether it was preprocessed and the result
    method_data,   \* load: the dataset open_mfdataset returns
    load_err,      \* load: exception raised by open_mfdataset, "none" so far
    load_pc,       \* load: "preprocess", "loaded" or "failed"
    tele_data,     \* merge: telemetered dataset (mutated by the alignment cells)
    host_data,     \* merge: recovered_host dataset
    inst_data,     \* merge: recovered_inst dataset
    tele_host,     \* merge: result of the first combine_first
    data,          \* merge: the merged record
    src,           \* merge: the three datasets as loaded, before any cell ran
    cell,          \* merge: next notebook cell to run, "done" or "failed"
    merge_err,     \* merge: exception raised by a merge cell, "none" so far
    datastreams,   \* streams: the datastreams frame, rows [index, method, stream]
    streams0,      \* streams: the frame as get_datastreams returned it
    stream_mask,   \* streams: the boolean Series mask, keyed by index label
    loop_todo,     \* streams: index labels the load loop has still to visit
    reached,       \* streams: the stream identifiers the loop body was run for
    bound,         \* streams: the dataset names bound in the kernel
    stream_err,    \* streams: exception raised by a cell, "none" so far
    stream_pc,     \* streams: next step of the pipeline
    metadata,      \* parameters: the metadata frame, rows [index, pdId]
    metadata0,     \* parameters: the frame as get_metadata returned it
    data_levels,   \* parameters: the dict pdId -> data level
    param_pc,      \* parameters: "filter" or "done"
    catalog,       \* download: the catalog list of the download cell
    catalog0,      \* download: the catalog as get_thredds_catalog returned it
    cat_i,         \* download: position of the for loop's iterator in the list
    downloaded,    \* download: the list handed to download_netCDF_files
    cat_pc,        \* download: "clean" or "downloaded"
    requests,      \* pipeline: catalog requests of the current loop pass, in order
    loop_catalog,  \* pipeline: the load loop's variable catalog (cleaned)
    dodsC,         \* pipeline: the load loop's variable dodsC
    file_parts,    \* pipeline: the files of the open_mfdataset call in progress
    loaded,        \* pipeline: per dataset name, the parts it was concatenated from
    merged         \* pipeline: the datasets combine_datasets was called with

trimVars  == <<deployments, dep_index, ds, ds_arg, ds_file, err, calls>>
mergeVars == <<tele_data, host_data, inst_data, tele_host, data, src, cell, merge_err>>
loadVars  == <<files, parts, method_data, load_err, load_pc>>
streamVars == <<datastreams, streams0, stream_mask, loop_todo, reached, bound,
                stream_err, stream_pc>>
vars      == <<deployments, dep_index, ds, ds_arg, ds_file, err, calls,
               files, parts, method_data, load_err, load_pc,
               tele_data, host_data, inst_data, tele_host, data, src, cell, merge_err,
               datastreams, streams0, stream_mask, loop_todo, reached, bound,
               stream_err, stream_pc,
               metadata, metadata0, data_levels, param_pc,
               catalog, catalog0, cat_i, downloaded, cat_pc,
               requests, loop_catalog, dodsC, file_parts, loaded, merged>>
paramVars   == <<metadata, metadata0, data_levels, param_pc>>
catalogVars == <<catalog, catalog0, cat_i, downloaded, cat_pc>>
pipeVars    == <<requests, loop_catalog, dodsC, file_parts, loaded, merged>>
auxVars     == <<paramVars, catalogVars, pipeVars>>

\* ------------------------------------------------------------------ bounds
MaxDeployments == 2     \* deployments in the table
MaxTime        == 3     \* timestamps of the trim model are 1..MaxTime
MaxSamples     == 2     \* samples in one per-file dataset
MaxCalls       == 2     \* successive trim_overlaps calls on one dataset
MaxFiles       == 2     \* files of one method handed to open_mfdataset
MaxMergeTime   == 1     \* timestamps of the merge model are 1..MaxMergeTime
MaxStreams     == 2     \* rows of the datastreams frame
MaxParams      == 2     \* rows of the metadata frame
MaxLinks       == 2     \* links in one cleaned THREDDS catalog of the load loop
MaxCatalog     == 4     \* entries of a THREDDS catalog in the download cell

\* pandas NaT: an absent deployEnd, and the fill value of Series.shift(-1)
NaT == 0
\* numpy NaN: a missing cell of a data variable
NaN == 0
\* Python None: what dict.get returns for a key the dict lacks
None == -1

\* ------------------------------------------------------------ sequence helpers
RECURSIVE SetToSortedSeq(_)
\* the elements of a finite set of integers in increasing order
SetToSortedSeq(S) ==
    IF S = {} THEN <<>>
    ELSE LET m == CHOOSE x \in S : \A y \in S : x <= y
         IN  <<m>> \o SetToSortedSeq(S \ {m})

SeqRange(s) == { s[i] : i \in 1..Len(s) }

RECURSIVE Flatten(_)
\* the sequences of a list joined in the order of the list (xr.concat along time,
\* the rows DataFrame.loc returns for a list of labels)
Flatten(seqs) == IF seqs = <<>> THEN <<>> ELSE Head(seqs) \o Flatten(Tail(seqs))

\* ============================================================ trim_overlaps
\* a sort that leaves the rows in the order the caller passed them
sort_values_keep_order(tab) == tab

\* deployments.sort_values(by="deploymentNumber")
RECURSIVE sort_values(_)
sort_values(tab) ==
    IF tab = <<>> THEN <<>>
    ELSE LET i == CHOOSE k \in 1..Len(tab) :
                     \A j \in 1..Len(tab) :
                         tab[k].deploymentNumber <= tab[j].deploymentNumber
             rest == [j \in 1..(Len(tab) - 1) |-> IF j < i THEN tab[j] ELSE tab[j + 1]]
         IN  <<tab[i]>> \o sort_values(rest)

\* deployments["deployStart"].shift(-1): row i gets the next row's start, the last row NaT
shift(tab) ==
    [i \in 1..Len(tab) |-> IF i < Len(tab) THEN tab[i + 1].deployStart ELSE NaT]

\* deployments["deployEnd"] > deployEnd: a comparison with NaT on either side is False
mask(tab) ==
    [i \in 1..Len(tab) |->
        /\ tab[i].deployEnd # NaT
        /\ shift(tab)[i] # NaT
        /\ tab[i].deployEnd > shift(tab)[i]]

\* deployments["deployEnd"][mask] = deployEnd[mask] on the rows of a frame (the
\* chained assignment writes through, as in pandas without copy-on-write); the
\* pd.to_datetime of the next line leaves timestamps and NaT as they are
clip(rows) ==
    [i \in 1..Len(rows) |->
        [rows[i] EXCEPT !.deployEnd =
            IF mask(rows)[i] THEN shift(rows)[i] ELSE rows[i].deployEnd]]

\* the table the function works on once the end times are clipped: the rows in
\* deploymentNumber order, each with its number
ClippedTable(tab) == clip(sort_values(tab))

\* np.unique(ds["deployment"]): the distinct deployment values, sorted
unique(d) == SetToSortedSeq({ d[i].deployment : i \in 1..Len(d) })

Index(tab) == { tab[i].deploymentNumber : i \in 1..Len(tab) }

\* deployments.loc[n] for a label n of the index
Row(tab, n) == tab[CHOOSE i \in 1..Len(tab) : tab[i].deploymentNumber = n]

\* ds.sel(time=slice(start, end)) on a sorted time index: label slicing keeps both
\* end points; a NaT stop is searched with searchsorted, where NaT sorts after
\* every timestamp (numpy >= 1.18), so nothing is cut at the end
SelSlice(d, start, end) ==
    SelectSeq(d, LAMBDA s : s.time >= start /\ (end = NaT \/ s.time <= end))

\* ------------------------------------------------------------ objects and names
\* A Python name holds a reference to an object: heap[ref] is the object's value,
\* and two names with one reference see each other's writes.  A DataFrame object
\* is [index |-> its labels, rows |-> its rows]; a Dataset object is its samples.

\* the default index of a frame of n rows: 0 .. n-1
RangeIndex(n) == [i \in 1..n |-> i - 1]

\* a frame with the default index, as get_deployments returns the table
DataFrame(tab) == [index |-> RangeIndex(Len(tab)), rows |-> tab]

\* a newly created object: the heap with it, and the reference to it
new(heap, value) == [heap |-> Append(heap, value), ref |-> Len(heap) + 1]

\* the frame sorted by deploymentNumber: each row moves with its index label
sorted_frame(fr) ==
    LET z == [i \in 1..Len(fr.rows) |->
                 [deploymentNumber |-> fr.rows[i].deploymentNumber,
                  label |-> fr.index[i], row |-> fr.rows[i]]]
        s == sort_values(z)
    IN  [index |-> [i \in 1..Len(s) |-> s[i].label],
         rows  |-> [i \in 1..Len(s) |-> s[i].row]]

\* frame.sort_values(by="deploymentNumber", inplace=True): the object the name
\* refers to is sorted itself, and no frame is created
DataFrame_sort_values_inplace(heap, ref) ==
    [heap |-> [heap EXCEPT ![ref] = sorted_frame(heap[ref])], ref |-> ref]

\* frame.sort_values(by="deploymentNumber"): inplace is False, so the result is a
\* new frame and the object the name refers to stays as it is
DataFrame_sort_values(heap, ref) == new(heap, sorted_frame(heap[ref]))

\* frame.set_index(keys="deploymentNumber"): a new frame whose index holds the
\* deployment numbers and whose rows have lost that column (drop=True)
DataFrame_set_index(heap, ref) ==
    LET fr == heap[ref]
    IN  new(heap,
            [index |-> [i \in 1..Len(fr.rows) |-> fr.rows[i].deploymentNumber],
             rows  |-> [i \in 1..Len(fr.rows) |->
                           [deployStart |-> fr.rows[i].deployStart,
                            deployEnd   |-> fr.rows[i].deployEnd]]])

\* frame["deployEnd"][mask] = ...; frame["deployEnd"] = ...: both lines write into
\* the object the name refers to
DataFrame_setitem_deployEnd(heap, ref) ==
    [heap EXCEPT ![ref] = [index |-> heap[ref].index, rows |-> clip(heap[ref].rows)]]

\* the rows of a frame that carry the index label n, in the frame's order
rows_of_label(fr, n) ==
    LET at == SetToSortedSeq({ i \in 1..Len(fr.index) : fr.index[i] = n })
    IN  [k \in 1..Len(at) |-> fr.rows[at[k]]]

\* a lookup that does not raise on a label the index lacks, as frame.reindex(labels)
\* gives it: the row of such a label has NaT in every column
loc_reindex(fr, labels) ==
    [err  |-> "none",
     rows |-> Flatten([k \in 1..Len(labels) |->
                  IF labels[k] \in SeqRange(fr.index)
                  THEN rows_of_label(fr, labels[k])
                  ELSE << [deployStart |-> NaT, deployEnd |-> NaT] >>])]

\* frame.loc[labels] for a list of labels: KeyError when the index lacks one of
\* them, else the rows of each label in the order of the list
loc(fr, labels) ==
    IF \E k \in 1..Len(labels) : labels[k] \notin SeqRange(fr.index)
    THEN [err |-> "KeyError", rows |-> <<>>]
    ELSE [err  |-> "none",
          rows |-> Flatten([k \in 1..Len(labels) |-> rows_of_label(fr, labels[k])])]

\* One call trim_overlaps(ds, deployments), statement by statement.  The
\* parameters are the references the caller passes; the local names deployments
\* and ds start as those references and are rebound by the assignments.  The
\* result is the heap when the call ends, the exception raised ("none" if it
\* returned) and the reference returned (0 if it raised).
trim_overlaps_call(heap, ds_ref, deployments_ref) ==
    LET sorted     == DataFrame_sort_values(heap, deployments_ref)
        indexed    == DataFrame_set_index(sorted.heap, sorted.ref)
        local      == indexed.ref      \* what the local name deployments refers to
        h          == DataFrame_setitem_deployEnd(indexed.heap, local)
        depNum     == unique(h[ds_ref])
        deployInfo == loc(h[local], depNum)
    IN  IF deployInfo.err # "none"
        THEN [heap |-> h, err |-> deployInfo.err, ret |-> 0]     \* deployments.loc[depNum]
        ELSE IF deployInfo.rows = <<>>
        THEN [heap |-> h, err |-> "IndexError", ret |-> 0]       \* .values[0] of an empty frame
        ELSE LET deployStart == deployInfo.rows[1].deployStart
                 deployEnd   == deployInfo.rows[1].deployEnd
                 sel         == new(h, SelSlice(h[ds_ref], deployStart, deployEnd))
             IN  [heap |-> sel.heap, err |-> "none", ret |-> sel.ref]

\* trim_overlaps(ds, deployments) on a dataset and a table:
\* [err |-> exception or "none", ds |-> returned dataset]
trim_overlaps(d, tab) ==
    LET f == trim_overlaps_call(<< DataFrame(tab), d >>, 2, 1)
    IN  [err |-> f.err, ds |-> IF f.err = "none" THEN f.heap[f.ret] ELSE <<>>]

\* ------------------------------------------------------------ trim: inputs
Times == 1..MaxTime

Rows(n) == [deploymentNumber : {n}, deployStart : Times, deployEnd : Times \cup {NaT}]

\* a row is a plausible record: a recorded end is not before the start
RowOk(r) == r.deployEnd = NaT \/ r.deployEnd >= r.deployStart

\* tables of deployments 1..n in any row order, starts non-decreasing in number order
Tables ==
    UNION { { t \in [1..n -> UNION { Rows(k) : k \in 1..n }] :
                /\ \A i \in 1..n : RowOk(t[i])
                /\ \A i, j \in 1..n : i # j => t[i].deploymentNumber # t[j].deploymentNumber
                /\ \A i, j \in 1..n :
                      t[i].deploymentNumber < t[j].deploymentNumber
                          => t[i].deployStart <= t[j].deployStart }
            : n \in 1..MaxDeployments }

Samples == [time : Times, deployment : 1..(MaxDeployments + 1)]

\* per-file datasets: at least one sample, time index strictly increasing
Datasets ==
    UNION { { d \in [1..n -> Samples] : \A i \in 1..(n - 1) : d[i].time < d[i + 1].time }
            : n \in 1..MaxSamples }

TrimInit ==
    /\ deployments \in Tables
    /\ dep_index = RangeIndex(Len(deployments))
    /\ ds \in Datasets
    /\ ds_file = ds
    /\ ds_arg = <<>>
    /\ err = "none"
    /\ calls = 0

\* ds = trim_overlaps(ds, deployments), as in preprocess_datalogger.  The caller's
\* objects are the deployments frame (reference 1), the dataset open_mfdataset
\* opened (reference 2) and, once a call has returned, the dataset that call
\* returned (reference 3), to which the name ds is then bound.  After the call the
\* caller's objects are read back from the heap the call leaves; the name ds is
\* rebound only when the call returns.
TrimOverlaps ==
    /\ err = "none"
    /\ calls < MaxCalls
    /\ LET frame  == [index |-> dep_index, rows |-> deployments]
           heap   == IF calls = 0 THEN << frame, ds >> ELSE << frame, ds_file, ds >>
           ds_ref == Len(heap)
       IN  \E f \in { trim_overlaps_call(heap, ds_ref, 1) } :
           /\ err' = f.err
           /\ ds' = IF f.err = "none" THEN f.heap[f.ret] ELSE f.heap[ds_ref]
           /\ ds_arg' = f.heap[ds_ref]
           /\ ds_file' = f.heap[2]
           /\ deployments' = f.heap[1].rows
           /\ dep_index' = f.heap[1].index
    /\ calls' = calls + 1

MergeIdle ==
    /\ tele_data = <<>> /\ host_data = <<>> /\ inst_data = <<>>
    /\ tele_host = <<>> /\ data = <<>> /\ src = <<>> /\ cell = "idle"
    /\ merge_err = "none"

LoadIdle ==
    /\ files = <<>> /\ parts = <<>> /\ method_data = <<>>
    /\ load_err = "none" /\ load_pc = "idle"

StreamIdle ==
    /\ datastreams = <<>> /\ streams0 = <<>> /\ stream_mask = <<>>
    /\ loop_todo = <<>> /\ reached = <<>> /\ bound = {}
    /\ stream_err = "none" /\ stream_pc = "idle"

ParamIdle ==
    /\ metadata = <<>> /\ metadata0 = <<>> /\ data_levels = <<>> /\ param_pc = "idle"

CatalogIdle ==
    /\ catalog = <<>> /\ catalog0 = <<>> /\ cat_i = 0 /\ downloaded = <<>>
    /\ cat_pc = "idle"

PipeIdle ==
    /\ requests = <<>> /\ loop_catalog = <<>> /\ dodsC = "unbound"
    /\ file_parts = <<>> /\ loaded = <<>> /\ merged = <<>>

AuxIdle == ParamIdle /\ CatalogIdle /\ PipeIdle

SpecTrimNext == TrimOverlaps /\ UNCHANGED <<mergeVars, loadVars, streamVars, auxVars>>

SpecTrimInit == TrimInit /\ MergeIdle /\ LoadIdle /\ StreamIdle /\ AuxIdle

SpecTrim == SpecTrimInit /\ [][SpecTrimNext]_vars

\* trim_overlaps called on a file as the instrument writes it: all the samples of
\* a file carry one deployment number (known to the table or not)
FileDatasets == { d \in Datasets : Cardinality({ d[i].deployment : i \in 1..Len(d) }) = 1 }

TrimFileInit ==
    /\ deployments \in Tables
    /\ dep_index = RangeIndex(Len(deployments))
    /\ ds \in FileDatasets
    /\ ds_file = ds
    /\ ds_arg = <<>>
    /\ err = "none"
    /\ calls = 0

SpecTrimFileInit == TrimFileInit /\ MergeIdle /\ LoadIdle /\ StreamIdle /\ AuxIdle

SpecTrimFile == SpecTrimFileInit /\ [][SpecTrimNext]_vars

\* ============================================================ load loop
\* preprocess_datalogger(ds): process_file and pco2a_datalogger come from the OOI
\* libraries and leave the time index and the deployment variable as they are
preprocess_datalogger(d, tab) == trim_overlaps(d, tab)

\* pandas Index.is_monotonic_increasing or is_monotonic_decreasing: neighbours may
\* be equal
IsMonotonic(idx) ==
    \/ \A i \in 1..(Len(idx) - 1) : idx[i] <= idx[i + 1]
    \/ \A i \in 1..(Len(idx) - 1) : idx[i] >= idx[i + 1]

\* the combine step of open_mfdataset (combine="by_coords") on the time indexes of
\* the preprocessed files, each of them increasing:
\*   - one file: returned as it is;
\*   - all indexes equal: no coordinate to order by, ValueError;
\*   - an index without timestamp: ValueError ("size zero dimensions");
\*   - otherwise the files are ranked by their first timestamp (dense rank) and put
\*     in a dict keyed by rank, so that of the files starting with the same
\*     timestamp the last of the list stays; the files are concatenated by rank;
\*   - the concatenated index is not monotonic: ValueError.
\* order lists the positions of the files concatenated, in their order.
combine_by_coords(idxs) ==
    IF Len(idxs) <= 1
    THEN [err |-> "none", order |-> [i \in 1..Len(idxs) |-> i]]
    ELSE IF \A i \in 2..Len(idxs) : idxs[i] = idxs[1]
    THEN [err |-> "ValueError", order |-> <<>>]
    ELSE IF \E i \in 1..Len(idxs) : idxs[i] = <<>>
    THEN [err |-> "ValueError", order |-> <<>>]
    ELSE LET first_items == SetToSortedSeq({ idxs[i][1] : i \in 1..Len(idxs) })
             last(t) == CHOOSE i \in 1..Len(idxs) :
                           /\ idxs[i][1] = t
                           /\ \A j \in 1..Len(idxs) : idxs[j][1] = t => j <= i
             order  == [k \in 1..Len(first_items) |-> last(first_items[k])]
             joined == Flatten([k \in 1..Len(order) |-> idxs[order[k]]])
         IN  IF IsMonotonic(joined)
             THEN [err |-> "none", order |-> order]
             ELSE [err |-> "ValueError", order |-> <<>>]

\* what open_mfdataset makes of the preprocessed files: [err, ds]
Concat(ps) ==
    LET idxs == [i \in 1..Len(ps) |-> [k \in 1..Len(ps[i].ds) |-> ps[i].ds[k].time]]
        r    == combine_by_coords(idxs)
    IN  [err |-> r.err,
         ds  |-> Flatten([k \in 1..Len(r.order) |-> ps[r.order[k]].ds])]

\* the files of one method: each file holds samples of one deployment, the list is
\* in deployment order (the catalog is sorted by file name)
FileLists ==
    UNION { { fl \in [1..n -> { d \in Datasets : Cardinality({ d[i].deployment : i \in 1..Len(d) }) = 1 }] :
                \A i \in 1..(n - 1) : fl[i][1].deployment <= fl[i + 1][1].deployment }
            : n \in 1..MaxFiles }

LoadInit ==
    /\ deployments \in Tables
    /\ files \in FileLists
    /\ parts = [i \in 1..Len(files) |-> [done |-> FALSE, ds |-> <<>>]]
    /\ method_data = <<>>
    /\ load_err = "none"
    /\ load_pc = "preprocess"
    /\ dep_index = RangeIndex(Len(deployments))
    /\ ds = <<>> /\ ds_arg = <<>> /\ ds_file = <<>> /\ err = "none" /\ calls = 0

\* open_mfdataset(..., preprocess=preprocess_datalogger, parallel=True): the files
\* are preprocessed one by one in no fixed order; an exception ends the load
Preprocess(i) ==
    /\ load_pc = "preprocess"
    /\ ~parts[i].done
    /\ LET r == preprocess_datalogger(files[i], deployments)
       IN  IF r.err = "none"
           THEN /\ parts' = [parts EXCEPT ![i] = [done |-> TRUE, ds |-> r.ds]]
                /\ UNCHANGED <<load_err, load_pc>>
           ELSE /\ load_err' = r.err
                /\ load_pc' = "failed"
                /\ UNCHANGED parts
    /\ UNCHANGED <<files, method_data, trimVars>>

\* open_mfdataset: once every file is preprocessed the results are combined; the
\* call returns the combined dataset or raises the ValueError of the combine step
CombineFiles ==
    /\ load_pc = "preprocess"
    /\ \A i \in 1..Len(files) : parts[i].done
    /\ LET r == Concat(parts)
       IN  IF r.err = "none"
           THEN /\ method_data' = r.ds
                /\ load_pc' = "loaded"
                /\ UNCHANGED load_err
           ELSE /\ load_err' = r.err
                /\ load_pc' = "failed"
                /\ UNCHANGED method_data
    /\ UNCHANGED <<files, parts, trimVars>>

SpecLoadNext ==
    \/ \E i \in 1..Len(files) : Preprocess(i) /\ UNCHANGED <<mergeVars, streamVars, auxVars>>
    \/ CombineFiles /\ UNCHANGED <<mergeVars, streamVars, auxVars>>

SpecLoadInit == LoadInit /\ MergeIdle /\ StreamIdle /\ AuxIdle

SpecLoad == SpecLoadInit /\ [][SpecLoadNext]_vars

\* ============================================================ merge cells
\* A dataset of the merge cells: [time |-> the time index, vars |-> for each data
\* variable its values keyed by timestamp]. A DataArray is [time, val].
VarNames == {"pco2", "humidity"}

DataVars(D) == DOMAIN D.vars

\* D[var]
GetItem(D, var) == [time |-> D.time, val |-> D.vars[var]]

ValueAt(da, t) == IF t \in SeqRange(da.time) THEN da.val[t] ELSE NaN

\* the two indexes appended in place of their union: a shared label comes twice
JoinAppend(a, b) == a \o b

\* an inner join in place of the outer join: only the shared timestamps survive
JoinInner(a, b) == IF a = b THEN a ELSE SetToSortedSeq(SeqRange(a) \cap SeqRange(b))

\* align(..., join="outer") of two indexes: an index equal to the other is kept,
\* otherwise pandas' Index.union, which returns the other index as it is when one
\* is empty and the sorted union of the labels when both have labels
JoinOuter(a, b) ==
    IF a = b \/ b = <<>> THEN a
    ELSE IF a = <<>> THEN b
    ELSE SetToSortedSeq(SeqRange(a) \cup SeqRange(b))

\* the index holds a label more than once
HasDuplicates(idx) == Len(idx) # Cardinality(SeqRange(idx))

\* align raises "cannot reindex or align along dimension 'time' because the index
\* has duplicate values" when the two indexes differ and one repeats a label
AlignRaises(a, b) == a # b /\ (HasDuplicates(a) \/ HasDuplicates(b))

\* da.broadcast_like(other): da on the outer join of other's index and its own,
\* NaN where da has no sample
broadcast_like(da, other) ==
    LET idx == JoinOuter(other, da.time)
    IN  [time |-> idx, val |-> [t \in SeqRange(idx) |-> ValueAt(da, t)]]

\* D[var] = da: the new variable is re-indexed to D's own time index
SetItem(D, var, da) ==
    [D EXCEPT !.vars =
        [v \in DataVars(D) \cup {var} |->
            IF v = var THEN [t \in SeqRange(D.time) |-> ValueAt(da, t)]
            ELSE D.vars[v]]]

RECURSIVE BroadcastMissing(_, _, _)
\* for var in donor.variables: if var not in target.variables:
\*     target[var] = donor[var].broadcast_like(target["time"])
\* todo is the set of donor variables still to visit
BroadcastMissing(target, donor, todo) ==
    IF todo = {} THEN target
    ELSE LET var  == CHOOSE v \in todo : TRUE
             next == IF var \notin DataVars(target)
                     THEN SetItem(target, var,
                                  broadcast_like(GetItem(donor, var), target.time))
                     ELSE target
         IN  BroadcastMissing(next, donor, todo \ {var})

\* fillna in place of combine_first: a left join, A's index is kept and B fills
\* A's missing cells only at A's own timestamps
combine_first_fillna(A, B) ==
    LET cellOf(D, v, t) == IF v \in DataVars(D) THEN ValueAt(GetItem(D, v), t) ELSE NaN
    IN  [time |-> A.time,
         vars |-> [v \in DataVars(A) \cup DataVars(B) |->
                     [t \in SeqRange(A.time) |->
                        IF cellOf(A, v, t) # NaN THEN cellOf(A, v, t)
                        ELSE cellOf(B, v, t)]]]

\* combine_first with the roles swapped: a cell takes B's value unless that is NaN
combine_first_other_wins(A, B) ==
    LET idx == JoinOuter(A.time, B.time)
        cellOf(D, v, t) == IF v \in DataVars(D) THEN ValueAt(GetItem(D, v), t) ELSE NaN
    IN  [time |-> idx,
         vars |-> [v \in DataVars(A) \cup DataVars(B) |->
                     [t \in SeqRange(idx) |->
                        IF cellOf(B, v, t) # NaN THEN cellOf(B, v, t)
                        ELSE cellOf(A, v, t)]]]

\* A.combine_first(B): outer join of the indexes and of the variables; a cell takes
\* A's value unless that is NaN, and then B's
combine_first(A, B) ==
    LET idx == JoinOuter(A.time, B.time)
        cellOf(D, v, t) == IF v \in DataVars(D) THEN ValueAt(GetItem(D, v), t) ELSE NaN
    IN  [time |-> idx,
         vars |-> [v \in DataVars(A) \cup DataVars(B) |->
                     [t \in SeqRange(idx) |->
                        IF cellOf(A, v, t) # NaN THEN cellOf(A, v, t)
                        ELSE cellOf(B, v, t)]]]

\* ------------------------------------------------------------ merge: inputs
MergeTimes == 1..MaxMergeTime

\* the reading a source (1 telemetered, 2 recovered_host, 3 recovered_inst) holds
\* for timestamp t: readings of different sources and times are distinct
Reading(code, t) == code * 10 + t

\* the datasets of one method over the time index idx: any non-empty set of
\* variables, each cell either a reading or NaN
DatasetsOver(code, idx) ==
    UNION { { [time |-> idx,
               vars |-> [v \in N |-> [t \in SeqRange(idx) |->
                           IF <<v, t>> \in defd THEN Reading(code, t) ELSE NaN]]]
              : defd \in SUBSET (N \X SeqRange(idx)) }
            : N \in (SUBSET VarNames) \ {{}} }

\* the datasets one method can deliver: any strictly increasing time index
SourceDatasets(code) ==
    UNION { DatasetsOver(code, SetToSortedSeq(T)) : T \in SUBSET MergeTimes }

\* time indexes that are not strictly increasing: a timestamp later than every
\* regular one comes first, followed by itself again or by an earlier timestamp
IrregularIndexes == { <<MaxMergeTime + 1, MaxMergeTime + 1>>, <<MaxMergeTime + 1, 1>> }

MergeInit ==
    /\ src \in [tele : SourceDatasets(1), host : SourceDatasets(2), inst : SourceDatasets(3)]
    /\ tele_data = src.tele
    /\ host_data = src.host
    /\ inst_data = src.inst
    /\ tele_host = <<>>
    /\ data = <<>>
    /\ cell = "align_tele_host"
    /\ merge_err = "none"

\* the two loops of an alignment cell: first gets the variables only second has,
\* then second gets the variables only first has
align_variables(first, second) ==
    LET f == BroadcastMissing(first, second, DataVars(second))
    IN  [first |-> f, second |-> BroadcastMissing(second, f, DataVars(f))]

RECURSIVE Orders(_)
\* the orders in which a loop can visit the variables S of a dataset
Orders(S) ==
    IF S = {} THEN {<<>>}
    ELSE UNION { { <<x>> \o o : o \in Orders(S \ {x}) } : x \in S }

RECURSIVE BroadcastInOrder(_, _, _)
\* the loop with "break" where the code goes on to the next variable: it stops at
\* the first variable the target already has
BroadcastInOrder_break(target, donor, order) ==
    IF order = <<>> \/ Head(order) \in DataVars(target) THEN target
    ELSE BroadcastInOrder(SetItem(target, Head(order),
                                  broadcast_like(GetItem(donor, Head(order)), target.time)),
                          donor, Tail(order))

\* for var in donor.variables: if var not in target.variables:
\*     target[var] = donor[var].broadcast_like(target["time"])
\* with the variables visited in the given order
BroadcastInOrder(target, donor, order) ==
    IF order = <<>> THEN target
    ELSE LET var  == Head(order)
             next == IF var \notin DataVars(target)
                     THEN SetItem(target, var,
                                  broadcast_like(GetItem(donor, var), target.time))
                     ELSE target
         IN  BroadcastInOrder(next, donor, Tail(order))

\* an alignment cell whose second loop is missing: second gets nothing
align_variables_one_way(first, second, o1, o2) ==
    [first |-> BroadcastInOrder(first, second, o1), second |-> second]

\* the two loops of an alignment cell, the first visiting second's variables in the
\* order o1 and the second visiting first's variables in the order o2
align_variables_in(first, second, o1, o2) ==
    LET f == BroadcastInOrder(first, second, o1)
    IN  [first |-> f, second |-> BroadcastInOrder(second, f, o2)]

\* what an alignment cell can leave, over the orders in which the two datasets
\* list their variables
AlignOutcomes(first, second) ==
    UNION { { align_variables_in(first, second, o1, o2)
              : o2 \in Orders(DataVars(BroadcastInOrder(first, second, o1))) }
            : o1 \in Orders(DataVars(second)) }

\* an alignment cell raises at its first assignment, before it changed anything,
\* when there is a variable to add and the two time indexes cannot be aligned
align_variables_raises(first, second) ==
    DataVars(first) # DataVars(second) /\ AlignRaises(first.time, second.time)

\* the merge of one pair as the cells compute it: alignment of the variables, then
\* higher.combine_first(lower)
MergePair(higher, lower) ==
    LET a == align_variables(lower, higher)
    IN  combine_first(a.second, a.first)

\* cell: "Need to make sure each dataset has the same variables"
AlignTeleHost ==
    /\ cell = "align_tele_host"
    /\ IF align_variables_raises(host_data, tele_data)
       THEN /\ merge_err' = "ValueError"
            /\ cell' = "failed"
            /\ UNCHANGED <<tele_data, host_data>>
       ELSE /\ \E a \in AlignOutcomes(host_data, tele_data) :
                  /\ host_data' = a.first
                  /\ tele_data' = a.second
            /\ cell' = "combine_tele_host"
            /\ UNCHANGED merge_err
    /\ UNCHANGED <<inst_data, tele_host, data, src>>

\* cell: tele_host = tele_data.combine_first(host_data)
CombineTeleHost ==
    /\ cell = "combine_tele_host"
    /\ IF AlignRaises(tele_data.time, host_data.time)
       THEN /\ merge_err' = "ValueError"
            /\ cell' = "failed"
            /\ UNCHANGED tele_host
       ELSE /\ tele_host' = combine_first(tele_data, host_data)
            /\ cell' = "align_inst"
            /\ UNCHANGED merge_err
    /\ UNCHANGED <<tele_data, host_data, inst_data, data, src>>

\* cell: broadcast between tele_host and inst_data
AlignInst ==
    /\ cell = "align_inst"
    /\ IF align_variables_raises(inst_data, tele_host)
       THEN /\ merge_err' = "ValueError"
            /\ cell' = "failed"
            /\ UNCHANGED <<inst_data, tele_host>>
       ELSE /\ \E a \in AlignOutcomes(inst_data, tele_host) :
                  /\ inst_data' = a.first
                  /\ tele_host' = a.second
            /\ cell' = "combine_inst"
            /\ UNCHANGED merge_err
    /\ UNCHANGED <<tele_data, host_data, data, src>>

\* cell: data = inst_data.combine_first(tele_host)
CombineInst ==
    /\ cell = "combine_inst"
    /\ IF AlignRaises(inst_data.time, tele_host.time)
       THEN /\ merge_err' = "ValueError"
            /\ cell' = "failed"
            /\ UNCHANGED data
       ELSE /\ data' = combine_first(inst_data, tele_host)
            /\ cell' = "done"
            /\ UNCHANGED merge_err
    /\ UNCHANGED <<tele_data, host_data, inst_data, tele_host, src>>

TrimIdle ==
    /\ deployments = <<>> /\ dep_index = <<>>
    /\ ds = <<>> /\ ds_arg = <<>> /\ ds_file = <<>>
    /\ err = "none" /\ calls = 0

SpecMergeNext ==
    \/ AlignTeleHost /\ UNCHANGED <<trimVars, loadVars, streamVars, auxVars>>
    \/ CombineTeleHost /\ UNCHANGED <<trimVars, loadVars, streamVars, auxVars>>
    \/ AlignInst /\ UNCHANGED <<trimVars, loadVars, streamVars, auxVars>>
    \/ CombineInst /\ UNCHANGED <<trimVars, loadVars, streamVars, auxVars>>

SpecMergeInit == MergeInit /\ TrimIdle /\ LoadIdle /\ StreamIdle /\ AuxIdle

SpecMerge == SpecMergeInit /\ [][SpecMergeNext]_vars

\* the cells started on their loaded datasets
MergeStart ==
    /\ tele_data = src.tele
    /\ host_data = src.host
    /\ inst_data = src.inst
    /\ tele_host = <<>>
    /\ data = <<>>
    /\ cell = "align_tele_host"
    /\ merge_err = "none"

\* the merge cells run on a recovered_host dataset that is an identical copy of the
\* telemetered one (the same files opened under both names)
MergeCopyInit ==
    /\ \E d \in SourceDatasets(1), i \in SourceDatasets(3) :
          src = [tele |-> d, host |-> d, inst |-> i]
    /\ MergeStart

SpecMergeCopyInit == MergeCopyInit /\ TrimIdle /\ LoadIdle /\ StreamIdle /\ AuxIdle

SpecMergeCopy == SpecMergeCopyInit /\ [][SpecMergeNext]_vars

\* the merge cells run on telemetered and recovered_host datasets that have samples
\* and a recovered_inst dataset whose time index is not strictly increasing
MergeIrregularInit ==
    /\ \E t \in SourceDatasets(1), h \in SourceDatasets(2), idx \in IrregularIndexes :
          /\ t.time # <<>>
          /\ h.time # <<>>
          /\ \E i \in DatasetsOver(3, idx) : src = [tele |-> t, host |-> h, inst |-> i]
    /\ MergeStart

SpecMergeIrregularInit == MergeIrregularInit /\ TrimIdle /\ LoadIdle /\ StreamIdle /\ AuxIdle

SpecMergeIrregular == SpecMergeIrregularInit /\ [][SpecMergeNext]_vars

\* the merge cells run on datasets of the one variable "pco2" whose time indexes
\* reach one timestamp further than MergeTimes, so that the indexes of two sources
\* can interleave
WideTimes == 1..(MaxMergeTime + 1)

WideDatasets(code) ==
    UNION { { d \in DatasetsOver(code, SetToSortedSeq(T)) : DataVars(d) = {"pco2"} }
            : T \in SUBSET WideTimes }

MergeWideInit ==
    /\ src \in [tele : WideDatasets(1), host : WideDatasets(2), inst : WideDatasets(3)]
    /\ MergeStart

SpecMergeWideInit == MergeWideInit /\ TrimIdle /\ LoadIdle /\ StreamIdle /\ AuxIdle

SpecMergeWide == SpecMergeWideInit /\ [][SpecMergeNext]_vars

\* the merge cells run on datasets whose readings are measured values, which two
\* sources can both report for a cell: the same value or different ones
Values == {1, 2}

ValueDatasets(names) ==
    UNION { UNION { { [time |-> SetToSortedSeq(T), vars |-> vs]
                      : vs \in [N -> [T -> {NaN} \cup Values]] }
                    : N \in (SUBSET names) \ {{}} }
            : T \in SUBSET MergeTimes }

MergeValuesInit ==
    /\ src \in [tele : ValueDatasets(VarNames), host : ValueDatasets(VarNames),
                inst : ValueDatasets({"pco2"})]
    /\ MergeStart

SpecMergeValuesInit == MergeValuesInit /\ TrimIdle /\ LoadIdle /\ StreamIdle /\ AuxIdle

SpecMergeValues == SpecMergeValuesInit /\ [][SpecMergeNext]_vars

\* ============================================================ stream filter and load loop
\* A stream identifier is the sequence of the characters of its name.  The
\* datastreams frame is a sequence of rows [index, method, stream], index being the
\* row's label.
Methods == {"telemetered", "recovered_host", "recovered_inst"}

pco2a_a_dcl_instrument_water ==
    <<"p", "c", "o", "2", "a", "_", "a", "_", "d", "c", "l", "_", "i", "n", "s",
      "t", "r", "u", "m", "e", "n", "t", "_", "w", "a", "t", "e", "r">>

pco2a_a_dcl_instrument_air ==
    <<"p", "c", "o", "2", "a", "_", "a", "_", "d", "c", "l", "_", "i", "n", "s",
      "t", "r", "u", "m", "e", "n", "t", "_", "a", "i", "r">>

pco2a_a_dcl_instrument_water_recovered ==
    <<"p", "c", "o", "2", "a", "_", "a", "_", "d", "c", "l", "_", "i", "n", "s",
      "t", "r", "u", "m", "e", "n", "t", "_", "w", "a", "t", "e", "r", "_", "r",
      "e", "c", "o", "v", "e", "r", "e", "d">>

pco2w_abc_dcl_instrument_blank ==
    <<"p", "c", "o", "2", "w", "_", "a", "b", "c", "_", "d", "c", "l", "_", "i",
      "n", "s", "t", "r", "u", "m", "e", "n", "t", "_", "b", "l", "a", "n", "k">>

pco2w_abc_dcl_metadata ==
    <<"p", "c", "o", "2", "w", "_", "a", "b", "c", "_", "d", "c", "l", "_", "m",
      "e", "t", "a", "d", "a", "t", "a">>

pco2w_abc_dcl_powersys ==
    <<"p", "c", "o", "2", "w", "_", "a", "b", "c", "_", "d", "c", "l", "_", "p",
      "o", "w", "e", "r", "s", "y", "s">>

metbk_hourly_repair ==
    <<"m", "e", "t", "b", "k", "_", "h", "o", "u", "r", "l", "y", "_", "r", "e",
      "p", "a", "i", "r">>

\* stream names: those of the PCO2A and PCO2W instruments, and names that hold one
\* of the tested texts inside a longer word
StreamIds ==
    { pco2a_a_dcl_instrument_water, pco2a_a_dcl_instrument_water_recovered,
      pco2a_a_dcl_instrument_air, pco2w_abc_dcl_instrument_blank,
      pco2w_abc_dcl_metadata, pco2w_abc_dcl_powersys, metbk_hourly_repair }

\* the texts the lambda looks for
str_metadata == <<"m", "e", "t", "a", "d", "a", "t", "a">>

str_blank == <<"b", "l", "a", "n", "k">>

str_power == <<"p", "o", "w", "e", "r">>

str_air == <<"a", "i", "r">>

\* pat in x: pat occurs in x as a run of consecutive characters
Contains(x, pat) ==
    \E i \in 1..(Len(x) - Len(pat) + 1) : SubSeq(x, i, i + Len(pat) - 1) = pat

\* the lambda without its last test: the "air" streams are kept
keep_stream_air(x) ==
    IF Contains(x, str_metadata) \/ Contains(x, str_blank) \/ Contains(x, str_power)
    THEN FALSE ELSE TRUE

\* lambda x: False if "metadata" in x or "blank" in x or "power" in x or "air" in x
\*           else True
keep_stream(x) ==
    IF Contains(x, str_metadata) \/ Contains(x, str_blank) \/ Contains(x, str_power)
       \/ Contains(x, str_air)
    THEN FALSE ELSE TRUE

\* frame.index
Labels(frame) == [i \in 1..Len(frame) |-> frame[i].index]

\* datastreams["stream"].apply(...): a boolean Series on the frame's index
MaskOf(frame) ==
    [l \in SeqRange(Labels(frame)) |->
        keep_stream(frame[CHOOSE i \in 1..Len(frame) : frame[i].index = l].stream)]

\* frame[mask]: the boolean Series is matched to the frame's rows by index label
ApplyMask(frame, m) == SelectSeq(frame, LAMBDA r : m[r.index])

\* frame.loc[label]
Loc(frame, label) == frame[CHOOSE i \in 1..Len(frame) : frame[i].index = label]

\* the frames get_datastreams can return: rows labelled 0, 1, ...
Frames ==
    UNION { { [i \in 1..n |-> [index |-> i - 1, method |-> f[i][1], stream |-> f[i][2]]]
              : f \in [1..n -> Methods \X StreamIds] }
            : n \in 0..MaxStreams }

StreamInit ==
    /\ streams0 \in Frames
    /\ datastreams = streams0
    /\ stream_mask = <<>>
    /\ loop_todo = <<>>
    /\ reached = <<>>
    /\ bound = {}
    /\ stream_err = "none"
    /\ stream_pc = "filter"

\* cell: mask = datastreams["stream"].apply(...); datastreams = datastreams[mask]
FilterStreams ==
    /\ stream_pc = "filter"
    /\ stream_mask' = MaskOf(datastreams)
    /\ datastreams' = ApplyMask(datastreams, stream_mask')
    /\ stream_pc' = "loop_header"
    /\ UNCHANGED <<streams0, loop_todo, reached, bound, stream_err>>

\* for index in datastreams[mask].index: the old mask is applied to the filtered frame
StartLoop ==
    /\ stream_pc = "loop_header"
    /\ loop_todo' = Labels(ApplyMask(datastreams, stream_mask))
    /\ stream_pc' = IF loop_todo' = <<>> THEN "combine" ELSE "loop"
    /\ UNCHANGED <<datastreams, streams0, stream_mask, reached, bound, stream_err>>

\* what open_mfdataset can raise: OSError on an empty file list, the exceptions of
\* trim_overlaps in preprocess, ValueError in the combine step
LoadErrors == {"OSError", "KeyError", "IndexError", "ValueError"}

\* one pass of the loop body: open_mfdataset binds tele_data or host_data when it
\* returns and ends the cell when it raises; the other methods are passed over
LoadStream ==
    /\ stream_pc = "loop"
    /\ LET row  == Loc(datastreams, Head(loop_todo))
           name == IF row.method = "telemetered" THEN "tele_data" ELSE "host_data"
           next == IF Tail(loop_todo) = <<>> THEN "combine" ELSE "loop"
       IN  /\ reached' = Append(reached, row.stream)
           /\ IF row.method \in {"telemetered", "recovered_host"}
              THEN \E returns \in BOOLEAN :
                     IF returns
                     THEN /\ bound' = bound \cup {name}
                          /\ loop_todo' = Tail(loop_todo)
                          /\ stream_pc' = next
                          /\ UNCHANGED stream_err
                     ELSE /\ stream_err' \in LoadErrors
                          /\ stream_pc' = "failed_load"
                          /\ UNCHANGED <<bound, loop_todo>>
              ELSE /\ loop_todo' = Tail(loop_todo)
                   /\ stream_pc' = next
                   /\ UNCHANGED <<bound, stream_err>>
    /\ UNCHANGED <<datastreams, streams0, stream_mask>>

\* the combine cell with tele_data and host_data set to None ahead of the loop: the
\* call is made whatever was loaded
combine_cell_defaults(names) == "none"

\* data = combine_datasets(tele_data, host_data, None, None): the arguments are
\* evaluated first, and a name the loop never bound raises NameError
combine_cell(names) ==
    IF {"tele_data", "host_data"} \subseteq names THEN "none" ELSE "NameError"

\* cell: data = combine_datasets(tele_data, host_data, None, None)
CombineDatasets ==
    /\ stream_pc = "combine"
    /\ stream_err' = combine_cell(bound)
    /\ bound' = IF stream_err' = "none" THEN bound \cup {"data"} ELSE bound
    /\ stream_pc' = IF stream_err' = "none" THEN "done" ELSE "failed_combine"
    /\ UNCHANGED <<datastreams, streams0, stream_mask, loop_todo, reached>>

SpecStreamsNext ==
    \/ FilterStreams /\ UNCHANGED <<trimVars, loadVars, mergeVars, auxVars>>
    \/ StartLoop /\ UNCHANGED <<trimVars, loadVars, mergeVars, auxVars>>
    \/ LoadStream /\ UNCHANGED <<trimVars, loadVars, mergeVars, auxVars>>
    \/ CombineDatasets /\ UNCHANGED <<trimVars, loadVars, mergeVars, auxVars>>

SpecStreamsInit == StreamInit /\ TrimIdle /\ LoadIdle /\ MergeIdle /\ AuxIdle

SpecStreams == SpecStreamsInit /\ [][SpecStreamsNext]_vars

\* ============================================================ parameter filter
\* parameter ids of the metadata frame
ParamIds == {"PD1", "PD2", "PD3"}

\* data levels L0 (raw), L1, L2
DataLevels == {0, 1, 2}

\* pid_dict.get(pdId)
get(pid_dict, pdId) == IF pdId \in DOMAIN pid_dict THEN pid_dict[pdId] ELSE None

\* filter_parameter_ids with "data_level >= 0": level 0 passes
filter_parameter_ids_nonneg(pdId, pid_dict) ==
    LET data_level == get(pid_dict, pdId)
    IN  IF data_level # None
        THEN IF data_level >= 0 THEN TRUE ELSE FALSE
        ELSE FALSE

\* filter_parameter_ids(pdId, pid_dict)
filter_parameter_ids(pdId, pid_dict) ==
    LET data_level == get(pid_dict, pdId)
    IN  IF data_level # None
        THEN IF data_level > 0 THEN TRUE ELSE FALSE
        ELSE FALSE

\* metadata["pdId"].apply(lambda x: filter_parameter_ids(x, data_levels))
ParamMask(frame, pid_dict) ==
    [l \in SeqRange(Labels(frame)) |->
        filter_parameter_ids(Loc(frame, l).pdId, pid_dict)]

\* the dicts get_parameter_data_levels can return: a level for some of the ids
LevelDicts == UNION { [S -> DataLevels] : S \in SUBSET ParamIds }

\* the metadata frames: rows labelled 0, 1, ...
MetadataFrames ==
    UNION { { [i \in 1..n |-> [index |-> i - 1, pdId |-> f[i]]] : f \in [1..n -> ParamIds] }
            : n \in 0..MaxParams }

ParamInit ==
    /\ metadata0 \in MetadataFrames
    /\ metadata = metadata0
    /\ data_levels \in LevelDicts
    /\ param_pc = "filter"

\* cell: mask = metadata["pdId"].apply(...); metadata = metadata[mask]
FilterParameters ==
    /\ param_pc = "filter"
    /\ metadata' = ApplyMask(metadata, ParamMask(metadata, data_levels))
    /\ param_pc' = "done"
    /\ UNCHANGED <<metadata0, data_levels>>

SpecParamsNext ==
    FilterParameters
    /\ UNCHANGED <<trimVars, loadVars, mergeVars, streamVars, catalogVars, pipeVars>>

SpecParamsInit ==
    ParamInit /\ TrimIdle /\ LoadIdle /\ MergeIdle /\ StreamIdle /\ CatalogIdle /\ PipeIdle

SpecParams == SpecParamsInit /\ [][SpecParamsNext]_vars

\* ============================================================ download cell
\* A catalog entry is [id, blank]: a dataset link, and whether "blank" is in it.
\* the catalogs get_thredds_catalog can return: distinct links
DownloadCatalogs ==
    UNION { { [i \in 1..n |-> [id |-> i, blank |-> b[i]]] : b \in [1..n -> BOOLEAN] }
            : n \in 0..MaxCatalog }

\* list.remove(x): the list without the first element equal to x
list_remove(list, x) ==
    LET k == CHOOSE i \in 1..Len(list) : list[i] = x /\ \A j \in 1..(i - 1) : list[j] # x
    IN  [j \in 1..(Len(list) - 1) |-> IF j < k THEN list[j] ELSE list[j + 1]]

CatalogInit ==
    /\ catalog0 \in DownloadCatalogs
    /\ catalog = catalog0
    /\ cat_i = 0
    /\ downloaded = <<>>
    /\ cat_pc = "clean"

\* one pass of "for dataset in catalog: if "blank" in dataset: catalog.remove(dataset)":
\* the list iterator yields the element at its position in the list as it is now
\* and moves on by one
CleanStep ==
    /\ cat_pc = "clean"
    /\ cat_i < Len(catalog)
    /\ LET dataset == catalog[cat_i + 1]
       IN  catalog' = IF dataset.blank THEN list_remove(catalog, dataset) ELSE catalog
    /\ cat_i' = cat_i + 1
    /\ UNCHANGED <<catalog0, downloaded, cat_pc>>

\* the iterator is past the end of the list: the loop ends and
\* OOINet.download_netCDF_files(catalog, saveDir=save_dir) gets the list
Download ==
    /\ cat_pc = "clean"
    /\ cat_i >= Len(catalog)
    /\ downloaded' = catalog
    /\ cat_pc' = "downloaded"
    /\ UNCHANGED <<catalog, catalog0, cat_i>>

SpecCatalogNext ==
    \/ CleanStep /\ UNCHANGED <<trimVars, loadVars, mergeVars, streamVars, paramVars, pipeVars>>
    \/ Download /\ UNCHANGED <<trimVars, loadVars, mergeVars, streamVars, paramVars, pipeVars>>

SpecCatalogInit ==
    CatalogInit /\ TrimIdle /\ LoadIdle /\ MergeIdle /\ StreamIdle /\ ParamIdle /\ PipeIdle

SpecCatalog == SpecCatalogInit /\ [][SpecCatalogNext]_vars

\* ============================================================ load loop, step by step
\* The load loop of Downloading_Data.ipynb with the catalog requests and the steps
\* of open_mfdataset as separate steps.  A catalog link is a record
\* [prefix, root, id, blank]: the text "catalog.html?dataset=", the dataset root
\* of the server that listed it, the file, and whether the name has "blank" in it.
\* A part is a file of the call in progress: [file, done, trimmed, time], time
\* being, once the file is preprocessed, the time index trim_overlaps left of it.
CatalogPrefix == "catalog.html?dataset="

\* M2M.URLS: the OPeNDAP bases of the gold-copy and the OOINet THREDDS servers
URLS == [goldCopy_dodsC |-> "goldCopy_dodsC", dodsC |-> "dodsC"]

\* dataset roots of the links in the gold-copy and the OOINet catalogs
Roots == [gold |-> "ooigoldcopy", ooinet |-> "ooi"]

\* the cleaned catalogs a server can answer with
Catalogs(root) ==
    UNION { { [i \in 1..n |-> [prefix |-> CatalogPrefix, root |-> root, id |-> i,
                               blank |-> b[i]]]
              : b \in [1..n -> BOOLEAN] }
            : n \in 0..MaxLinks }

\* the streams of the step-by-step loop: one the filter keeps, one it drops
PipelineStreams == { pco2a_a_dcl_instrument_water, pco2a_a_dcl_instrument_air }

\* get_datastreams lists each (method, stream) once
PipelineFrames ==
    { f \in Frames :
        /\ \A i \in 1..Len(f) : f[i].stream \in PipelineStreams
        /\ \A i, j \in 1..Len(f) :
              (f[i].method = f[j].method /\ f[i].stream = f[j].stream) => i = j }

\* the fallback taken whatever the gold-copy catalog holds
needs_fallback_always(cat) == TRUE

\* if len(catalog) == 0:
needs_fallback(cat) == Len(cat) = 0

\* re.sub("catalog.html\?dataset=", dodsC, file)
re_sub(base, file) ==
    IF file.prefix = CatalogPrefix THEN [file EXCEPT !.prefix = base] ELSE file

\* [re.sub(...) for file in catalog], then [f for f in files if "blank" not in f]
file_list(cat, base) ==
    SelectSeq([i \in 1..Len(cat) |-> re_sub(base, cat[i])], LAMBDA f : ~f.blank)

\* timestamps of the files of the step-by-step loop
PartTimes == {1, 2}

\* the time indexes trim_overlaps can leave of a file: any increasing index, none
\* of the samples included
TrimmedIndexes == { SetToSortedSeq(T) : T \in SUBSET PartTimes }

\* preprocess without the trim_overlaps call
preprocess_part_no_trim(part, kept) == [part EXCEPT !.done = TRUE, !.time = kept]

\* preprocess_datalogger on one opened file: the file has gone through
\* trim_overlaps, which left the samples of the index kept
preprocess_part(part, kept) ==
    [part EXCEPT !.done = TRUE, !.trimmed = TRUE, !.time = kept]

\* the dataset name the loop body binds for a method
dataset_name(method) == IF method = "telemetered" THEN "tele_data" ELSE "host_data"

PipelineInit ==
    /\ streams0 \in PipelineFrames
    /\ datastreams = streams0
    /\ stream_mask = <<>>
    /\ loop_todo = <<>>
    /\ reached = <<>>
    /\ bound = {}
    /\ stream_err = "none"
    /\ stream_pc = "filter"
    /\ requests = <<>>
    /\ loop_catalog = <<>>
    /\ dodsC = "unbound"
    /\ file_parts = <<>>
    /\ loaded = [tele_data |-> <<>>, host_data |-> <<>>]
    /\ merged = <<>>

\* loop body: the gold-copy catalog is requested and cleaned, dodsC is set to the
\* gold-copy base
RequestGold ==
    /\ stream_pc = "loop"
    /\ reached' = Append(reached, Loc(datastreams, Head(loop_todo)).stream)
    /\ \E cat \in Catalogs(Roots.gold) :
          /\ loop_catalog' = cat
          /\ requests' = <<[goldCopy |-> TRUE, cleaned |-> cat]>>
          /\ stream_pc' = IF needs_fallback(cat) THEN "fallback" ELSE "load"
    /\ dodsC' = URLS.goldCopy_dodsC
    /\ UNCHANGED <<datastreams, streams0, stream_mask, loop_todo, bound, stream_err,
                   file_parts, loaded, merged>>

\* loop body, if len(catalog) == 0: the OOINet catalog is requested and cleaned,
\* dodsC is set to the OOINet base
RequestOOINet ==
    /\ stream_pc = "fallback"
    /\ \E cat \in Catalogs(Roots.ooinet) :
          /\ loop_catalog' = cat
          /\ requests' = Append(requests, [goldCopy |-> FALSE, cleaned |-> cat])
    /\ dodsC' = URLS.dodsC
    /\ stream_pc' = "load"
    /\ UNCHANGED <<datastreams, streams0, stream_mask, loop_todo, reached, bound,
                   stream_err, file_parts, loaded, merged>>

\* loop body, telemetered or recovered_host: the file list is built and handed to
\* open_mfdataset, which raises OSError on an empty list
OpenFiles ==
    /\ stream_pc = "load"
    /\ Loc(datastreams, Head(loop_todo)).method \in {"telemetered", "recovered_host"}
    /\ LET fl == file_list(loop_catalog, dodsC)
       IN  IF fl = <<>>
           THEN /\ stream_err' = "OSError"
                /\ stream_pc' = "failed_load"
                /\ UNCHANGED file_parts
           ELSE /\ file_parts' = [i \in 1..Len(fl) |->
                                    [file |-> fl[i], done |-> FALSE, trimmed |-> FALSE,
                                     time |-> <<>>]]
                /\ stream_pc' = "preprocess"
                /\ UNCHANGED stream_err
    /\ UNCHANGED <<datastreams, streams0, stream_mask, loop_todo, reached, bound,
                   requests, loop_catalog, dodsC, loaded, merged>>

\* loop body, any other method: else: pass
SkipMethod ==
    /\ stream_pc = "load"
    /\ Loc(datastreams, Head(loop_todo)).method \notin {"telemetered", "recovered_host"}
    /\ loop_todo' = Tail(loop_todo)
    /\ stream_pc' = IF loop_todo' = <<>> THEN "combine" ELSE "loop"
    /\ UNCHANGED <<datastreams, streams0, stream_mask, reached, bound, stream_err,
                   pipeVars>>

\* open_mfdataset(..., preprocess=preprocess_datalogger, parallel=True): the opened
\* files are preprocessed one by one in no fixed order; an exception of
\* trim_overlaps ends the cell
PreprocessFile(i) ==
    /\ stream_pc = "preprocess"
    /\ ~file_parts[i].done
    /\ \/ /\ \E kept \in TrimmedIndexes :
                file_parts' = [file_parts EXCEPT ![i] = preprocess_part(@, kept)]
          /\ UNCHANGED <<stream_err, stream_pc>>
       \/ /\ stream_err' \in {"KeyError", "IndexError"}
          /\ stream_pc' = "failed_load"
          /\ UNCHANGED file_parts
    /\ UNCHANGED <<datastreams, streams0, stream_mask, loop_todo, reached, bound,
                   requests, loop_catalog, dodsC, loaded, merged>>

\* open_mfdataset combines the preprocessed files: it returns them concatenated in
\* the order of the combine step, and the loop body binds the result to tele_data
\* or host_data; or it raises the ValueError of the combine step, which ends the
\* cell with the name left as it was
BindDataset ==
    /\ stream_pc = "preprocess"
    /\ \A i \in 1..Len(file_parts) : file_parts[i].done
    /\ LET name == dataset_name(Loc(datastreams, Head(loop_todo)).method)
           r    == combine_by_coords([i \in 1..Len(file_parts) |-> file_parts[i].time])
       IN  IF r.err = "none"
           THEN /\ loaded' = [loaded EXCEPT ![name] =
                                  [k \in 1..Len(r.order) |-> file_parts[r.order[k]]]]
                /\ bound' = bound \cup {name}
                /\ file_parts' = <<>>
                /\ loop_todo' = Tail(loop_todo)
                /\ stream_pc' = IF loop_todo' = <<>> THEN "combine" ELSE "loop"
                /\ UNCHANGED stream_err
           ELSE /\ stream_err' = r.err
                /\ stream_pc' = "failed_load"
                /\ UNCHANGED <<loaded, bound, file_parts, loop_todo>>
    /\ UNCHANGED <<datastreams, streams0, stream_mask, reached,
                   requests, loop_catalog, dodsC, merged>>

\* cell: data = combine_datasets(tele_data, host_data, None, None), called with
\* the datasets the loop bound
CombineLoaded ==
    /\ CombineDatasets
    /\ merged' = IF combine_cell(bound) = "none"
                 THEN [tele_data |-> loaded.tele_data, host_data |-> loaded.host_data]
                 ELSE merged
    /\ UNCHANGED <<requests, loop_catalog, dodsC, file_parts, loaded>>

SpecPipelineNext ==
    \/ FilterStreams /\ UNCHANGED <<trimVars, loadVars, mergeVars, auxVars>>
    \/ StartLoop /\ UNCHANGED <<trimVars, loadVars, mergeVars, auxVars>>
    \/ RequestGold /\ UNCHANGED <<trimVars, loadVars, mergeVars, paramVars, catalogVars>>
    \/ RequestOOINet /\ UNCHANGED <<trimVars, loadVars, mergeVars, paramVars, catalogVars>>
    \/ OpenFiles /\ UNCHANGED <<trimVars, loadVars, mergeVars, paramVars, catalogVars>>
    \/ SkipMethod /\ UNCHANGED <<trimVars, loadVars, mergeVars, paramVars, catalogVars>>
    \/ \E i \in 1..Len(file_parts) :
          PreprocessFile(i) /\ UNCHANGED <<trimVars, loadVars, mergeVars, paramVars, catalogVars>>
    \/ BindDataset /\ UNCHANGED <<trimVars, loadVars, mergeVars, paramVars, catalogVars>>
    \/ CombineLoaded /\ UNCHANGED <<trimVars, loadVars, mergeVars, paramVars, catalogVars>>

SpecPipelineInit ==
    PipelineInit /\ TrimIdle /\ LoadIdle /\ MergeIdle /\ ParamIdle /\ CatalogIdle

SpecPipeline == SpecPipelineInit /\ [][SpecPipelineNext]_vars

\* ============================================================ properties: merge
\* the source as loaded holds a non-missing value for variable v at timestamp t
Defined(D, v, t) == v \in DataVars(D) /\ t \in SeqRange(D.time) /\ D.vars[v][t] # NaN

\* the value of cell (v, t) of D, NaN when D has no such cell
CellValue(D, v, t) ==
    IF v \in DataVars(D) /\ t \in SeqRange(D.time) THEN D.vars[v][t] ELSE NaN

\* C1: every cell defined by at least one source holds, in the merged record, the
\* value of the highest-ranked source defining it, with rank
\* recovered_inst > recovered_host > telemetered
C1_HighestRankedSourceWins ==
    cell = "done" =>
        \A v \in VarNames, t \in MergeTimes :
            (Defined(src.inst, v, t) \/ Defined(src.host, v, t) \/ Defined(src.tele, v, t))
            => CellValue(data, v, t) =
                  IF Defined(src.inst, v, t) THEN src.inst.vars[v][t]
                  ELSE IF Defined(src.host, v, t) THEN src.host.vars[v][t]
                  ELSE src.tele.vars[v][t]

\* C9: every cell recovered_inst defines appears in the merged record with exactly
\* that value, and a telemetered or recovered_host reading appears only in a cell
\* where recovered_inst has no value
C9_InstAuthoritative ==
    cell = "done" =>
        \A v \in VarNames, t \in MergeTimes :
            /\ Defined(src.inst, v, t) => CellValue(data, v, t) = src.inst.vars[v][t]
            /\ CellValue(data, v, t) \in {Reading(1, t), Reading(2, t)}
                  => ~Defined(src.inst, v, t)

\* the merge ran to its end on sources that conflict in one cell (all three define
\* it) while another cell, in which recovered_inst has no value, got filled
C9_Witness ==
    /\ cell = "done"
    /\ \E v \in VarNames, t \in MergeTimes :
          Defined(src.inst, v, t) /\ Defined(src.host, v, t) /\ Defined(src.tele, v, t)
    /\ \E v \in VarNames, t \in MergeTimes :
          ~Defined(src.inst, v, t) /\ CellValue(data, v, t) # NaN

\* C10: the merged record's timestamps are the union of the sources' timestamps and
\* its variables the union of their variables, nothing missing and nothing extra
C10_UnionCoverage ==
    cell = "done" =>
        /\ SeqRange(data.time) =
              SeqRange(src.tele.time) \cup SeqRange(src.host.time) \cup SeqRange(src.inst.time)
        /\ DataVars(data) = DataVars(src.tele) \cup DataVars(src.host) \cup DataVars(src.inst)
        /\ \A v \in DataVars(data) : DOMAIN data.vars[v] = SeqRange(data.time)

\* the merge ran to its end on sources whose time indexes and variable sets differ
C10_Witness ==
    /\ cell = "done"
    /\ SeqRange(src.inst.time) # SeqRange(src.tele.time)
    /\ SeqRange(src.host.time) # SeqRange(src.tele.time)
    /\ DataVars(src.inst) # DataVars(src.host)
    /\ DataVars(src.host) # DataVars(src.tele)
    /\ data.time # <<>>

\* C11: a completed merge leaves every source dataset the caller supplied
\* (telemetered, recovered_host, recovered_inst) exactly as it was before the merge:
\* same variables, same timestamps, same values
C11_SourcesUntouched ==
    cell = "done" =>
        tele_data = src.tele /\ host_data = src.host /\ inst_data = src.inst

\* C12: the merge is associative: for sources A, B, C in priority order (here
\* recovered_inst, telemetered, recovered_host, the order of the cells), the record
\* of the one fold equals the merge of [A, B] overlaid on C and equals A overlaid
\* on the merge of [B, C]
C12_MergeAssociative ==
    cell = "done" =>
        /\ data = MergePair(MergePair(src.inst, src.tele), src.host)
        /\ data = MergePair(src.inst, MergePair(src.tele, src.host))

\* the merge ran to its end on three sources that all have samples, with a cell only
\* the lowest source defines and a cell in which the two upper sources conflict
C12_Witness ==
    /\ cell = "done"
    /\ src.inst.time # <<>> /\ src.tele.time # <<>> /\ src.host.time # <<>>
    /\ \E v \in VarNames, t \in MergeTimes :
          Defined(src.host, v, t) /\ ~Defined(src.tele, v, t) /\ ~Defined(src.inst, v, t)
    /\ \E v \in VarNames, t \in MergeTimes :
          Defined(src.inst, v, t) /\ Defined(src.tele, v, t)

\* R has the time index of H and every variable of H with H's values; its other
\* variables are those of extra and hold no value at any timestamp
ExtendsByEmptyVars(R, H, extra) ==
    /\ R.time = H.time
    /\ DataVars(R) = DataVars(H) \cup extra
    /\ \A v \in DataVars(H) : R.vars[v] = H.vars[v]
    /\ \A v \in DataVars(R) \ DataVars(H) : \A t \in SeqRange(R.time) : R.vars[v][t] = NaN

\* C13 as the spec states it: when the lower-priority source has no samples, the
\* merge of the pair equals the higher-priority source exactly (same timestamps,
\* same variables, same values)
C13_EmptyLowerIsIdentity ==
    /\ (cell = "align_inst" /\ src.host.time = <<>>) => tele_host = src.tele
    /\ (cell = "done" /\ src.tele.time = <<>> /\ src.host.time = <<>>) => data = src.inst

\* C13, amended: when the lower-priority source has no samples, the merge of the
\* pair has the timestamps of the higher-priority source and its values for each of
\* its variables; a variable only the empty source has is added, with no value at
\* any timestamp
C13_EmptyLowerAddsOnlyEmptyVars ==
    /\ (cell = "align_inst" /\ src.host.time = <<>>)
          => ExtendsByEmptyVars(tele_host, src.tele, DataVars(src.host))
    /\ (cell = "done" /\ src.tele.time = <<>> /\ src.host.time = <<>>)
          => ExtendsByEmptyVars(data, src.inst, DataVars(src.tele) \cup DataVars(src.host))

\* telemetered, with samples, was merged with a recovered_host that has no samples
\* but a variable telemetered lacks
C13_Witness ==
    /\ cell = "align_inst"
    /\ src.host.time = <<>>
    /\ src.tele.time # <<>>
    /\ DataVars(src.host) \ DataVars(src.tele) # {}
    /\ \E v \in DataVars(src.tele), t \in MergeTimes : Defined(src.tele, v, t)

\* C14: merging a source with an identical copy of itself yields that source
\* unchanged: same timestamps, same variables, same values
C14_SelfMergeIsIdentity ==
    (cell = "align_inst" /\ src.host = src.tele) => tele_host = src.tele

\* a telemetered dataset that has a reading and a missing cell was merged with its
\* identical copy
C14_Witness ==
    /\ cell = "align_inst"
    /\ src.host = src.tele
    /\ \E v \in VarNames, t \in MergeTimes : Defined(src.tele, v, t)
    /\ \E v \in DataVars(src.tele), t \in MergeTimes :
          t \in SeqRange(src.tele.time) /\ ~Defined(src.tele, v, t)

\* the time index has no repeated and no out-of-order timestamp
StrictlyIncreasing(idx) == \A i \in 1..(Len(idx) - 1) : idx[i] < idx[i + 1]

\* C16: the merge fails whenever a source has a time index that is not strictly
\* increasing; it never sorts or de-duplicates the source and never returns a
\* merged record for it
C16_IrregularIndexFails ==
    cell = "done" =>
        /\ StrictlyIncreasing(src.tele.time)
        /\ StrictlyIncreasing(src.host.time)
        /\ StrictlyIncreasing(src.inst.time)

\* C17: a failed trim or merge is all-or-nothing: every input dataset is as it was
\* before the operation and no partly merged or partly trimmed dataset is returned
C17_FailureLeavesInputs ==
    /\ cell = "failed" =>
          /\ tele_data = src.tele /\ host_data = src.host /\ inst_data = src.inst
          /\ data = <<>>
    /\ err # "none" => ds = ds_arg

\* ============================================================ properties: trim
\* deployment row r owns timestamp t: deployStart <= t < its end, an absent end
\* (still deployed) leaving the interval open
Owns(r, t) == r.deployStart <= t /\ (r.deployEnd = NaT \/ t < r.deployEnd)

\* the deployment values the dataset carries
Tags(d) == { d[i].deployment : i \in 1..Len(d) }

\* the dataset carries one deployment number, and the table knows it
SingleKnown(d, tab) == Cardinality(Tags(d)) = 1 /\ Tags(d) \subseteq Index(tab)

\* C2: the owned intervals [deployStart_i, effectiveEnd_i) that trim_overlaps
\* computes are pairwise disjoint and ordered by deploymentNumber (no timestamp is
\* owned twice), and two consecutive intervals are apart only where the recorded
\* deployments are
C2_OwnedIntervalsDisjoint ==
    calls >= 1 =>
        LET eff == ClippedTable(deployments)
            rec == sort_values(deployments)
        IN  /\ \A i, j \in 1..Len(eff) :
                  i < j => \A t \in Times : ~(Owns(eff[i], t) /\ Owns(eff[j], t))
            /\ \A i \in 1..(Len(eff) - 1) :
                  (eff[i].deployEnd # NaT /\ eff[i].deployEnd < eff[i + 1].deployStart)
                  => eff[i].deployEnd = rec[i].deployEnd

\* C3: effectiveEnd_i = deployEnd_i when deployEnd_i <= deployStart_{i+1} or i has no
\* successor, and deployStart_{i+1} otherwise
C3_EffectiveEnd ==
    calls >= 1 =>
        LET eff == ClippedTable(deployments)
            rec == sort_values(deployments)
        IN  \A i \in 1..Len(rec) :
                eff[i].deployEnd =
                    IF i = Len(rec) THEN rec[i].deployEnd
                    ELSE IF rec[i].deployEnd # NaT
                            /\ rec[i].deployEnd <= rec[i + 1].deployStart
                         THEN rec[i].deployEnd
                         ELSE rec[i + 1].deployStart

\* C4: for a dataset of one known deployment, trim_overlaps returns exactly the
\* samples with deployStart <= t < effectiveEnd (end exclusive), unchanged and in order
C4_HalfOpenSelection ==
    (calls = 1 /\ SingleKnown(ds_arg, deployments)) =>
        LET r == Row(ClippedTable(deployments), ds_arg[1].deployment)
        IN  /\ err = "none"
            /\ ds = SelectSeq(ds_arg, LAMBDA s : Owns(r, s.time))

\* every deployment that has a successor has a recorded end
EndsRecorded(tab) ==
    LET rec == sort_values(tab) IN \A i \in 1..(Len(rec) - 1) : rec[i].deployEnd # NaT

\* C5: after every per-file dataset was trimmed against the same table, no timestamp
\* is in the trimmed output of two different deployments, and the concatenated
\* record has no timestamp twice from two deployments (stated for the tables in
\* which every deployment with a successor has a recorded end)
C5_NoInstantInTwoDeployments ==
    EndsRecorded(deployments) =>
    /\ \A i, j \in 1..Len(files) :
          (parts[i].done /\ parts[j].done /\ files[i][1].deployment # files[j][1].deployment)
          => \A a \in 1..Len(parts[i].ds), b \in 1..Len(parts[j].ds) :
                 parts[i].ds[a].time # parts[j].ds[b].time
    /\ load_pc = "loaded" =>
          \A a, b \in 1..Len(method_data) :
              (a # b /\ method_data[a].deployment # method_data[b].deployment)
              => method_data[a].time # method_data[b].time

\* C6: trim_overlaps fails whenever the dataset holds more than one distinct
\* deployment value; it never returns a dataset trimmed to one of the intervals
C6_AmbiguousDeploymentFails ==
    (calls = 1 /\ Cardinality(Tags(ds_arg)) > 1) => err # "none"

\* C7: trim_overlaps fails with the unknown-deployment error (the KeyError of the
\* table lookup) and returns no dataset whenever the dataset's deployment number
\* is not a deploymentNumber of the table
C7_UnknownDeploymentFails ==
    (calls >= 1 /\ ~(Tags(ds_arg) \subseteq Index(deployments)))
        => err = "KeyError" /\ ds = ds_arg

\* a call was made with a dataset of one deployment number that the table lacks
C7_Witness ==
    /\ calls = 1
    /\ Cardinality(Tags(ds_arg)) = 1
    /\ ds_arg[1].deployment \notin Index(deployments)
    /\ Len(deployments) = MaxDeployments
    /\ err = "KeyError"

\* C8: trimming is idempotent: a second trim_overlaps on the result of a successful
\* one succeeds and returns the same dataset, also when the first removed every
\* sample (stated for the datasets of one known deployment)
C8_TrimIdempotent ==
    (calls = 2 /\ SingleKnown(ds_file, deployments)) => err = "none" /\ ds = ds_arg

\* C18: trim_overlaps has no side effect: whether a call returns or raises, the
\* caller's deployments table (row order, index labels, deployStart and deployEnd)
\* and the caller's datasets (the one passed to the call and the one that was
\* opened) are after the call what they were before it
C18_TrimNoSideEffect ==
    [][/\ deployments' = deployments
       /\ dep_index' = dep_index
       /\ ds_arg' = ds
       /\ ds_file' = ds_file]_vars

\* a call was made on a table that the function's own frames re-order, re-index
\* and clip, and it cut samples from the dataset it was passed
C18_Witness ==
    /\ calls >= 1
    /\ sort_values(deployments) # deployments
    /\ dep_index # [i \in 1..Len(deployments) |-> deployments[i].deploymentNumber]
    /\ \E i \in 1..Len(deployments) : mask(sort_values(deployments))[i]
    /\ err = "none"
    /\ ds # ds_arg

\* C19: for a dataset whose samples all carry one deployment number of the table,
\* trim_overlaps returns without error whatever the timestamps are, and when every
\* sample lies outside the owned interval [deployStart, effectiveEnd) it returns an
\* empty dataset
C19_SingleKnownNeverFails ==
    (calls = 1 /\ SingleKnown(ds_arg, deployments)) =>
        LET r == Row(ClippedTable(deployments), ds_arg[1].deployment)
        IN  /\ err = "none"
            /\ (\A i \in 1..Len(ds_arg) : ~Owns(r, ds_arg[i].time)) => ds = <<>>

\* ============================================================ properties: streams
\* C15: when no stream of any method was loaded, the combine step reports an error
\* (the NameError of the unbound dataset names, the code's form of the
\* empty-source-set error) and produces no dataset
C15_NoSourcesFails ==
    (stream_pc \in {"done", "failed_combine"} /\ bound \cap {"tele_data", "host_data"} = {})
        => stream_err = "NameError" /\ "data" \notin bound

\* the combine cell ran after a loop that visited streams but loaded none of them
C15_Witness ==
    /\ stream_pc = "failed_combine"
    /\ bound = {}
    /\ Len(reached) = MaxStreams

\* C20: the filter keeps a (method, stream) row iff the stream identifier contains
\* none of "metadata", "blank", "power", "air"; every stream the load loop reaches
\* contains none of them; applying the filter again changes nothing
C20_StreamFilter ==
    LET excluded(x) ==
            \E pat \in {str_metadata, str_blank, str_power, str_air} : Contains(x, pat)
    IN  /\ stream_pc # "filter" =>
              /\ datastreams = SelectSeq(streams0, LAMBDA r : ~excluded(r.stream))
              /\ ApplyMask(datastreams, stream_mask) = datastreams
              /\ ApplyMask(datastreams, MaskOf(datastreams)) = datastreams
        /\ \A i \in 1..Len(reached) : ~excluded(reached[i])

\* the filter dropped a stream that has "air" inside a longer word and kept
\* another one, which the loop reached
C20_Witness ==
    /\ Len(streams0) = 2
    /\ streams0[1].stream = metbk_hourly_repair
    /\ Len(datastreams) = 1
    /\ reached = <<datastreams[1].stream>>

\* ============================================================ properties: merge, continued
\* C22: the merge is deterministic: what each cell leaves, and the merged record,
\* are determined by the source datasets alone, whatever the order in which the
\* alignment loops visit the variables
C22_MergeDeterministic ==
    /\ cell \in {"combine_tele_host", "align_inst", "combine_inst", "done"} =>
          /\ host_data = align_variables(src.host, src.tele).first
          /\ tele_data = align_variables(src.host, src.tele).second
    /\ cell \in {"combine_inst", "done"} =>
          LET th == MergePair(src.tele, src.host)
          IN  /\ inst_data = align_variables(src.inst, th).first
              /\ tele_host = align_variables(src.inst, th).second
    /\ cell = "done" => data = MergePair(src.inst, MergePair(src.tele, src.host))

\* the merge ran to its end after both loops of the first alignment cell had a
\* variable to add and two variables to visit
C22_Witness ==
    /\ cell = "done"
    /\ DataVars(src.tele) \ DataVars(src.host) # {}
    /\ DataVars(src.host) \ DataVars(src.tele) # {}
    /\ DataVars(src.inst) # DataVars(src.tele) \cup DataVars(src.host)
    /\ data.time # <<>>

\* dataset D has the variables of own with their values, and each variable of the
\* donor that own lacks with the donor's value where the donor has a sample at the
\* timestamp and no value elsewhere
AlignedWith(D, own, donor) ==
    /\ D.time = own.time
    /\ DataVars(D) = DataVars(own) \cup DataVars(donor)
    /\ \A v \in DataVars(own) : D.vars[v] = own.vars[v]
    /\ \A v \in DataVars(donor) \ DataVars(own) : \A t \in SeqRange(D.time) :
          D.vars[v][t] = CellValue(donor, v, t)

\* C23: before each combine step the two datasets combined have the same variable
\* set, the union of the variables of both: each variable only one of them had was
\* added to the other, in both directions, with no value at the timestamps where
\* the donor has none
C23_AlignedBeforeCombine ==
    /\ cell = "combine_tele_host" =>
          /\ DataVars(tele_data) = DataVars(host_data)
          /\ AlignedWith(host_data, src.host, src.tele)
          /\ AlignedWith(tele_data, src.tele, src.host)
    /\ cell = "combine_inst" =>
          LET th == combine_first(tele_data, host_data)
          IN  /\ DataVars(inst_data) = DataVars(tele_host)
              /\ AlignedWith(inst_data, src.inst, th)
              /\ AlignedWith(tele_host, th, src.inst)

\* the first alignment cell added a variable in each direction, one of them with a
\* reading of the donor
C23_Witness ==
    /\ cell = "combine_tele_host"
    /\ DataVars(src.tele) \ DataVars(src.host) # {}
    /\ DataVars(src.host) \ DataVars(src.tele) # {}
    /\ \E v \in DataVars(src.tele) \ DataVars(src.host), t \in MergeTimes :
          Defined(host_data, v, t)

\* C28: when the time index of each source is strictly increasing, so is the time
\* index of the merged record (sorted, no timestamp twice), also when a timestamp
\* occurs in several sources
C28_MergedIndexIncreasing ==
    (/\ StrictlyIncreasing(src.tele.time)
     /\ StrictlyIncreasing(src.host.time)
     /\ StrictlyIncreasing(src.inst.time))
    => /\ cell \in {"align_inst", "combine_inst", "done"} =>
             StrictlyIncreasing(tele_host.time)
       /\ cell = "done" => merge_err = "none" /\ StrictlyIncreasing(data.time)

\* the merge ran to its end on sources that share a timestamp, the telemetered
\* index starting later than the recovered_host one
C28_Witness ==
    /\ cell = "done"
    /\ Len(data.time) >= 2
    /\ \E t \in WideTimes :
          /\ t \in SeqRange(src.tele.time)
          /\ t \in SeqRange(src.host.time)
          /\ t \in SeqRange(src.inst.time)
    /\ src.tele.time # <<>> /\ src.host.time # <<>>
    /\ src.host.time[1] < src.tele.time[1]

\* sources A and B report the same value in every cell both define
Agree(A, B) ==
    \A v \in VarNames, t \in MergeTimes :
        (Defined(A, v, t) /\ Defined(B, v, t)) => A.vars[v][t] = B.vars[v][t]

\* the records X and Y have the same time index and variables and differ only in
\* cells in which A and B both define a value, and different ones
DifferOnlyInConflicts(X, Y, A, B) ==
    /\ X.time = Y.time
    /\ DataVars(X) = DataVars(Y)
    /\ \A v \in VarNames, t \in MergeTimes :
          CellValue(X, v, t) # CellValue(Y, v, t)
          => /\ Defined(A, v, t) /\ Defined(B, v, t)
             /\ A.vars[v][t] # B.vars[v][t]

\* C30: when two sources agree in every cell both define, the merge gives the same
\* record whichever of the two has priority; the priority changes the record only
\* in cells in which both define a value, and different ones
C30_CommutesOnAgreement ==
    /\ cell = "align_inst" /\ merge_err = "none" =>
          LET swapped == MergePair(src.host, src.tele)
          IN  /\ Agree(src.tele, src.host) => tele_host = swapped
              /\ DifferOnlyInConflicts(tele_host, swapped, src.tele, src.host)
    /\ cell = "done" /\ merge_err = "none" =>
          LET th      == MergePair(src.tele, src.host)
              swapped == MergePair(th, src.inst)
          IN  /\ Agree(src.inst, th) => data = swapped
              /\ DifferOnlyInConflicts(data, swapped, src.inst, th)

\* the merge ran to its end on a telemetered and a recovered_host source that both
\* define one cell with the same value, one of them defining a cell the other does
\* not, and on a recovered_inst source that agrees with their merge in a cell
C30_Witness ==
    /\ cell = "done"
    /\ Agree(src.tele, src.host)
    /\ \E v \in VarNames, t \in MergeTimes :
          Defined(src.tele, v, t) /\ Defined(src.host, v, t)
    /\ \E v \in VarNames, t \in MergeTimes :
          Defined(src.tele, v, t) # Defined(src.host, v, t)
    /\ Agree(src.inst, tele_host)
    /\ \E v \in VarNames, t \in MergeTimes :
          Defined(src.inst, v, t) /\ Defined(tele_host, v, t)

\* ============================================================ properties: parameters
\* C21: filter_parameter_ids keeps a parameter iff its id has a declared data level
\* greater than 0; a parameter of level 0 and a parameter whose id the data-level
\* map lacks are excluded
C21_ParameterFilter ==
    /\ \A id \in ParamIds :
          filter_parameter_ids(id, data_levels)
              <=> (id \in DOMAIN data_levels /\ data_levels[id] > 0)
    /\ param_pc = "done" =>
          metadata = SelectSeq(metadata0,
                        LAMBDA r : r.pdId \in DOMAIN data_levels /\ data_levels[r.pdId] > 0)

\* the filter ran on a frame with a parameter of level 0 and a parameter the map lacks
C21_Witness ==
    /\ param_pc = "done"
    /\ \E i \in 1..Len(metadata0) :
          metadata0[i].pdId \in DOMAIN data_levels /\ data_levels[metadata0[i].pdId] = 0
    /\ \E i \in 1..Len(metadata0) : metadata0[i].pdId \notin DOMAIN data_levels
    /\ \E id \in DOMAIN data_levels : data_levels[id] > 0

\* ============================================================ properties: download
\* C26: after the cleaning loop the catalog handed to the downloader has no entry
\* with "blank" in it and still has every entry without "blank", for every catalog
C26_NoBlankDownloaded ==
    cat_pc = "downloaded" =>
        downloaded = SelectSeq(catalog0, LAMBDA e : ~e.blank)

\* ============================================================ properties: trim, continued
\* C25: a deployment whose deployEnd is absent (still deployed) and that has a
\* successor gets the successor's deployStart as its effective end
C25_OpenEndClipped ==
    calls >= 1 =>
        LET eff == ClippedTable(deployments)
            rec == sort_values(deployments)
        IN  \A i \in 1..(Len(rec) - 1) :
                rec[i].deployEnd = NaT => eff[i].deployEnd = rec[i + 1].deployStart

\* the records of the table in the order of their deploymentNumber
RowsByNumber(tab) ==
    [i \in 1..Len(tab) |->
        CHOOSE r \in SeqRange(tab) :
            Cardinality({ q \in SeqRange(tab) : q.deploymentNumber < r.deploymentNumber })
                = i - 1]

\* C29: the outcome of trim_overlaps does not depend on the row order of the table:
\* the table passed, in whatever order its rows are, gives the same effective end
\* for every deploymentNumber and the same trimmed dataset (or the same error) as
\* the same records in deploymentNumber order, hence as any permutation of them
C29_RowOrderIrrelevant ==
    calls = 1 =>
        LET canon == RowsByNumber(deployments)
            r     == trim_overlaps(ds_arg, canon)
        IN  /\ \A n \in Index(deployments) :
                  Row(ClippedTable(deployments), n).deployEnd
                      = Row(ClippedTable(canon), n).deployEnd
            /\ err = r.err
            /\ r.err = "none" => ds = r.ds

\* a call trimmed a dataset against a table whose rows are not in deploymentNumber
\* order and in which an end is clipped
C29_Witness ==
    /\ calls = 1
    /\ deployments # RowsByNumber(deployments)
    /\ \E i \in 1..Len(deployments) : mask(sort_values(deployments))[i]
    /\ err = "none"
    /\ ds # ds_arg
\* ============================================================ properties: load loop
\* the parts that are being opened or were concatenated into a bound dataset
PartsSeen ==
    SeqRange(file_parts)
    \cup (IF loaded = <<>> THEN {}
          ELSE SeqRange(loaded.tele_data) \cup SeqRange(loaded.host_data))

\* C24: every file has gone through trim_overlaps before it is concatenated into
\* its method's dataset, and combine_datasets is called only once the loop has
\* visited every stream and no open_mfdataset call is in progress: every part of
\* the datasets it is called with is a trimmed one
C24_TrimBeforeMerge ==
    /\ loaded # <<>> =>
          \A name \in {"tele_data", "host_data"} :
              /\ \A i \in 1..Len(loaded[name]) :
                    loaded[name][i].done /\ loaded[name][i].trimmed
              /\ name \in bound <=> loaded[name] # <<>>
    /\ stream_pc \in {"combine", "done", "failed_combine"} =>
          loop_todo = <<>> /\ file_parts = <<>>
    /\ merged # <<>> =>
          /\ stream_pc = "done"
          /\ merged = loaded
          /\ \A name \in {"tele_data", "host_data"} :
                /\ merged[name] # <<>>
                /\ \A i \in 1..Len(merged[name]) : merged[name][i].trimmed

\* combine_datasets was called with a telemetered dataset of two files and a
\* recovered_host dataset
C24_Witness ==
    /\ stream_pc = "done"
    /\ merged # <<>>
    /\ Len(merged.tele_data) >= 2
    /\ merged.host_data # <<>>

\* C27: in a pass of the load loop the OOINet catalog is requested only after the
\* gold-copy catalog came back empty from cleaning, and every file link handed to
\* open_mfdataset starts with the gold-copy OPeNDAP base exactly when the link was
\* listed by the gold-copy catalog and with the OOINet base exactly when it was
\* listed by the OOINet catalog
C27_GoldCopyFallback ==
    /\ \A i \in 1..Len(requests) :
          ~requests[i].goldCopy =>
              /\ i > 1
              /\ requests[i - 1].goldCopy
              /\ requests[i - 1].cleaned = <<>>
    /\ \A part \in PartsSeen :
          /\ part.file.prefix = URLS.goldCopy_dodsC <=> part.file.root = Roots.gold
          /\ part.file.prefix = URLS.dodsC <=> part.file.root = Roots.ooinet

\* a pass that fell back to the OOINet catalog is opening its files after an
\* earlier pass loaded files of the gold-copy catalog
C27_Witness ==
    /\ stream_pc = "preprocess"
    /\ Len(requests) = 2
    /\ \E part \in SeqRange(file_parts) : part.file.root = Roots.ooinet
    /\ loaded # <<>>
    /\ \E part \in SeqRange(loaded.tele_data) \cup SeqRange(loaded.host_data) :
          part.file.root = Roots.gold
====
